---- MODULE Spec2Model ----
(***************************************************************************)
(* A model of gzip's util.c: the input buffer and its refill, the output   *)
(* buffer / window and their flushes, the write-with-retry loop, the       *)
(* running crc, the byte counters and the error handlers.                  *)
(*                                                                         *)
(* The program is single threaded.  Its position is pc; a step of the      *)
(* model is the code between two system calls (or between two calls whose  *)
(* order a property is about).  The operating system (read, write, fcntl), *)
(* and the codec that fills the window and consumes the input buffer, are  *)
(* the environment: their results are chosen with \E.                      *)
(***************************************************************************)
EXTENDS Integers, Sequences, FiniteSets, TLC

(***************************************************************************)
(* Bounds of the model.  The buffer sizes are the program's INBUFSIZ,      *)
(* OUTBUFSIZ and WSIZE scaled down.                                        *)
(***************************************************************************)
INBUFSIZ == 2
OUTBUFSIZ == 2
WSIZE == 2
\* the input source holds at most this many bytes
SrcLen == 3
\* calls into util.c made by the surrounding program in one run
MaxOps == 2

(***************************************************************************)
(* Values of the C environment.                                            *)
(***************************************************************************)
INT_MAX == 2147483647
EOF == -1
OK == 0
ERROR == 1
WARNING == 2
EPIPE == 32
EAGAIN == 11
EIO == 5
ENOSPC == 28
EBADF == 9
\* exitcode before the process has exited
RUNNING == -2

\* bytes the codec puts into the window and the output buffer
Byte == {97, 110}
\* the bytes of the input file, all different so that order shows
SrcData == [i \in 1..SrcLen |-> i]

program_name == "gzip"
ifname == "in.gz"
ofname == "out"

strerror(e) ==
    CASE e = EPIPE -> "Broken pipe"
      [] e = EAGAIN -> "Resource temporarily unavailable"
      [] e = EIO -> "Input/output error"
      [] e = ENOSPC -> "No space left on device"
      [] e = EBADF -> "Bad file descriptor"
      [] OTHER -> "Unknown error"

\* fprintf (stderr, "\n%s: %s: %s\n", program_name, name, m)
Diag(name, m) == <<"\n", program_name, ": ", name, ": ", m, "\n">>
\* fprintf (stderr, "\n%s: memory_exhausted\n", program_name)
DiagNoName == <<"\n", program_name, ": ", "memory_exhausted", "\n">>

Min(a, b) == IF a < b THEN a ELSE b

VARIABLES
    \* util.c / gzip.h globals
    inbuf, insize, inptr, outbuf, window, outcnt, bytes_in, bytes_out, crc,
    errno, test, quiet,
    \* the environment: bytes left in the input file, O_NONBLOCK on ifd, bytes
    \* received by ofd, lines on stderr, the exit status
    input, nonblock, output, stderr, exitcode,
    \* control: position, the call in progress and its arguments
    pc, op, eof_ok, wbuf, wcnt, wret, fret, retval,
    \* history: calls made, sums for the accounting, the write_buf call in
    \* progress, the last chunks fed to updcrc, the window scenario, results
    \* of the last read_buffer (rd: the errno of its first read, 0 if that
    \* read succeeded, and the bytes read since the call began) and write,
    \* whether write was ever called
    nops, acct, wg, upd, scen, lastread, rdcalls, rd, lastw, wrote,
    \* the second run of a pair of runs
    phase, log, twin

globals == <<inbuf, insize, inptr, outbuf, window, outcnt, bytes_in, bytes_out,
             crc, errno, test, quiet>>
envv == <<input, nonblock, output, stderr, exitcode>>
ctl == <<pc, op, eof_ok, wbuf, wcnt, wret, fret, retval>>
hist == <<nops, acct, wg, upd, scen, lastread, rdcalls, rd, lastw, wrote>>
pairv == <<phase, log, twin>>
vars == <<globals, envv, ctl, hist, pairv>>

(***************************************************************************)
(* The checksum.  crc32_update is gnulib's; it is modelled as a reflected  *)
(* table-less CRC with the register complemented on entry and exit, over   *)
(* a register of 8 bits instead of 32.                                     *)
(***************************************************************************)
CrcPoly == 140
CrcMask == 255

RECURSIVE XorBits(_, _)
XorBits(a, b) ==
    IF a = 0 THEN b
    ELSE IF b = 0 THEN a
    ELSE 2 * XorBits(a \div 2, b \div 2) + ((a + b) % 2)

XorTable == [a \in 0..CrcMask |-> [b \in 0..CrcMask |-> XorBits(a, b)]]

Xor(a, b) == XorTable[a][b]

CrcBit(c) == IF c % 2 = 1 THEN XorBits(c \div 2, CrcPoly) ELSE c \div 2

\* the table of the byte-at-a-time algorithm: eight shifts of each byte
CrcTable ==
    [x \in 0..CrcMask |->
        CrcBit(CrcBit(CrcBit(CrcBit(CrcBit(CrcBit(CrcBit(CrcBit(x))))))))]

CrcByte(c, b) == CrcTable[Xor(c, b)]

RECURSIVE CrcBytes(_, _, _, _)
CrcBytes(c, s, i, n) ==
    IF i > n THEN c ELSE CrcBytes(CrcByte(c, s[i]), s, i + 1, n)

crc32_update(c, s, n) == Xor(CrcBytes(Xor(c, CrcMask), s, 1, n), CrcMask)

(***************************************************************************)
(* Memory: the three arrays, indexed from 0 as in C, and the n bytes at    *)
(* base + off.                                                             *)
(***************************************************************************)
Mem(base) ==
    CASE base = "inbuf" -> inbuf
      [] base = "outbuf" -> outbuf
      [] base = "window" -> window

Bytes(base, off, n) == [i \in 1..n |-> Mem(base)[off + i - 1]]

(***************************************************************************)
(* A pair of runs on the same calls and the same input: the first run      *)
(* records what the environment gave it (the call made, what a read        *)
(* returned, the byte put), the second is given the same.  In a single run *)
(* nothing is recorded.  An event is <<kind, a, b, c, d>>.                 *)
(***************************************************************************)
Env(ev) ==
    CASE phase = "single" -> UNCHANGED log
      [] phase = "first" -> log' = Append(log, ev)
      [] phase = "second" -> log # <<>> /\ Head(log) = ev /\ log' = Tail(log)

B2N(b) == IF b THEN 1 ELSE 0

(***************************************************************************)
(* The system calls.  read gives at least one byte while the file has      *)
(* bytes left, 0 at its end (the file may end before SrcLen bytes: where   *)
(* it ends is decided when the read that finds the end is made), or fails. *)
(* write accepts any part of the request, or fails.                        *)
(***************************************************************************)
ReadSys(cnt) ==
    {[len |-> k, err |-> 0] : k \in 0..Min(cnt, Len(input))}
        \cup {[len |-> -1, err |-> e] : e \in {EAGAIN, EIO}}

WriteSys(cnt) ==
    {[n |-> k, err |-> 0] : k \in 0..cnt}
        \cup {[n |-> -1, err |-> e] : e \in {EPIPE, ENOSPC}}

(***************************************************************************)
(* read_buffer (fd, buf, cnt): what it can return.  len is the result,     *)
(* err the errno it leaves, nb the O_NONBLOCK flag it leaves, nreads the   *)
(* number of reads it made.                                                *)
(***************************************************************************)
ReadResult(r, nb, n, olderr, first) ==
    [len |-> r.len, err |-> IF r.len < 0 THEN r.err ELSE olderr, nb |-> nb,
     nreads |-> n, first |-> first]

read_buffer_retry_always(cnt) ==
    {[len |-> -1, err |-> EBADF, nb |-> nonblock, nreads |-> 1,
      first |-> EAGAIN]}
        \cup {ReadResult(r2, FALSE, 2, EAGAIN, EAGAIN) : r2 \in ReadSys(cnt)}

\* the first read failed with EAGAIN
read_buffer_retry(cnt) ==
    \* fcntl (fd, F_GETFL) fails
    {[len |-> -1, err |-> EBADF, nb |-> nonblock, nreads |-> 1,
      first |-> EAGAIN]}
        \cup
    (IF ~nonblock
     THEN {[len |-> -1, err |-> EAGAIN, nb |-> nonblock, nreads |-> 1,
            first |-> EAGAIN]}
     ELSE \* fcntl (fd, F_SETFL, flags & ~O_NONBLOCK) fails, or the second read
          {[len |-> -1, err |-> EBADF, nb |-> nonblock, nreads |-> 1,
            first |-> EAGAIN]}
              \cup {ReadResult(r2, FALSE, 2, EAGAIN, EAGAIN) : r2 \in ReadSys(cnt)})

read_buffer(cnt) ==
    LET c == IF INT_MAX < cnt THEN INT_MAX ELSE cnt
    IN  UNION {IF r1.len < 0 /\ r1.err = EAGAIN
               THEN read_buffer_retry(c)
               ELSE {ReadResult(r1, nonblock, 1, errno,
                                IF r1.len < 0 THEN r1.err ELSE 0)} : r1 \in ReadSys(c)}

\* write_buffer (fd, buf, cnt)
write_buffer(cnt) ==
    LET c == IF INT_MAX < cnt THEN INT_MAX ELSE cnt
    IN  WriteSys(c)

\* what a read_buffer result r does to the environment, whatever the caller
ReadDone(r) ==
    /\ errno' = r.err
    /\ nonblock' = r.nb
    /\ lastread' = r.len
    /\ rdcalls' = r.nreads
    /\ rd' = [first |-> r.first,
              total |-> rd.total + (IF r.len > 0 THEN r.len ELSE 0)]
    /\ input' = IF r.len = 0 THEN <<>>
                ELSE IF r.len > 0 THEN SubSeq(input, r.len + 1, Len(input))
                ELSE input
    /\ Env(<<"read", r.len, r.err, B2N(r.nb), r.nreads>>)

\* buf with the first len bytes of the input stored at offset off
Store(buf, off, len) ==
    [i \in DOMAIN buf |->
        IF off <= i /\ i < off + len THEN input[i - off + 1] ELSE buf[i]]

(***************************************************************************)
(* A call made by the surrounding program, when no call is in progress.    *)
(***************************************************************************)
\* no read made yet in the call
NoRead == [first |-> 0, total |-> 0]

\* the counters and cursors a call finds, the input left, the bytes ofd has
\* and the unread bytes of inbuf
Pre ==
    [bytes_in |-> bytes_in, bytes_out |-> bytes_out, crc |-> crc,
     insize |-> insize, inptr |-> inptr, outcnt |-> outcnt,
     input |-> input, outlen |-> Len(output),
     unread |-> Bytes("inbuf", inptr, insize - inptr)]

Call(name, a, b) ==
    /\ pc = "idle"
    /\ nops < MaxOps
    /\ nops' = nops + 1
    /\ op' = [name |-> name, a |-> a, b |-> b, pre |-> Pre]
    /\ lastread' = 0 /\ rdcalls' = 0 /\ lastw' = 0
    /\ rd' = NoRead
    /\ phase = "first" => log = <<>>
    /\ Env(<<name, a, b, 0, 0>>)

\* the process is gone: abort_gzip () and finish_up_gzip (exitcode) of gzip.c
abort_gzip == pc' = "exited" /\ exitcode' = ERROR
finish_up_gzip(code) == pc' = "exited" /\ exitcode' = code

NoWrite == [stat |-> "none", mark |-> 0, req |-> <<>>, bo |-> 0]
NoUpd == [v |-> 0, w |-> 0, a |-> <<>>, b |-> <<>>]

(***************************************************************************)
(* updcrc (s, n): the new value of crc.  s is "NULL" or the array pointed  *)
(* to.                                                                     *)
(***************************************************************************)
updcrc_restart(s, n) ==
    IF s = "NULL" THEN 0 ELSE crc32_update(0, Bytes(s, 0, n), n)

updcrc(s, n) ==
    IF s = "NULL" THEN 0 ELSE crc32_update(crc, Bytes(s, 0, n), n)

\* the last two chunks fed since the last reset, and crc before each
Fed(s, n) ==
    IF s = "NULL" THEN NoUpd
    ELSE [v |-> upd.w, w |-> crc, a |-> upd.b, b |-> Bytes(s, 0, n)]

(***************************************************************************)
(* write_buf (fd, buf, cnt) up to its first write: buf is base + off and   *)
(* ret is where it returns to.                                             *)
(***************************************************************************)
write_buf_count_after_test(cnt) == IF test THEN bytes_out ELSE bytes_out + cnt

write_buf_count(cnt) == bytes_out + cnt

write_buf_skip == test

write_buf_begin(base, off, cnt, ret) ==
    /\ bytes_out' = write_buf_count(cnt)
    /\ acct' = [acct EXCEPT !.cnt = @ + cnt]
    /\ wg' = [stat |-> IF write_buf_skip THEN "returned" ELSE "active",
              mark |-> Len(output), req |-> Bytes(base, off, cnt),
              bo |-> bytes_out]
    /\ IF write_buf_skip
       THEN pc' = ret /\ UNCHANGED <<wbuf, wcnt, wret>>
       ELSE /\ pc' = "wb_loop"
            /\ wbuf' = [base |-> base, off |-> off]
            /\ wcnt' = cnt
            /\ wret' = ret

\* the loop of write_buf: one write_buffer and what follows it
write_buf_advance_cnt_only(n) == [cnt |-> wcnt - n, off |-> wbuf.off]

write_buf_advance(n) == [cnt |-> wcnt - n, off |-> wbuf.off + n]

write_failed_or_nothing(n) == n <= 0

\* if (n == (unsigned)(-1)) write_error ()
write_failed(n) == n = -1

write_buf_loop ==
    /\ pc = "wb_loop"
    /\ \E r \in write_buffer(wcnt) :
        \* n is unsigned: a failed write gives (unsigned)(-1), which no cnt
        \* of the model equals; it is written -1 here
        LET n == r.n
        IN  /\ lastw' = r.n
            /\ wrote' = TRUE
            /\ IF n = wcnt
               THEN /\ output' = output \o Bytes(wbuf.base, wbuf.off, n)
                    /\ pc' = wret
                    /\ wg' = [wg EXCEPT !.stat = "returned"]
                    /\ UNCHANGED <<wbuf, wcnt, errno>>
               ELSE IF write_failed(n)
               THEN /\ pc' = "write_error"
                    /\ errno' = r.err
                    /\ UNCHANGED <<output, wbuf, wcnt, wg>>
               ELSE /\ output' = output \o Bytes(wbuf.base, wbuf.off, n)
                    /\ wcnt' = write_buf_advance(n).cnt
                    /\ wbuf' = [wbuf EXCEPT !.off = write_buf_advance(n).off]
                    /\ UNCHANGED <<pc, errno, wg>>
    /\ UNCHANGED <<inbuf, insize, inptr, outbuf, window, outcnt, bytes_in,
                   bytes_out, crc, test, quiet, input, nonblock, stderr,
                   exitcode, op, eof_ok, wret, fret, retval, nops, acct, upd,
                   scen, lastread, rdcalls, rd, pairv>>

\* write_buf called by the surrounding program
write_buf ==
    /\ \E base \in {"outbuf", "window"} :
         \E cnt \in 0..(IF base = "outbuf" THEN OUTBUFSIZ ELSE WSIZE) :
            /\ Call("write_buf", B2N(base = "outbuf"), cnt)
            /\ write_buf_begin(base, 0, cnt, "idle")
    /\ scen' = [scen EXCEPT !.ok = FALSE]
    /\ UNCHANGED <<inbuf, insize, inptr, outbuf, window, outcnt, bytes_in,
                   crc, errno, test, quiet, envv, eof_ok, fret, retval, upd,
                   wrote, phase, twin>>

(***************************************************************************)
(* The error handlers.                                                     *)
(***************************************************************************)
read_error_message ==
    IF errno # 0 THEN strerror(errno) ELSE "unexpected end of file"

read_error ==
    /\ pc = "read_error"
    /\ stderr' = Append(stderr, Diag(ifname, read_error_message))
    /\ abort_gzip
    /\ UNCHANGED <<globals, input, nonblock, output, op, eof_ok, wbuf, wcnt,
                   wret, fret, retval, hist, pairv>>

write_error_exitcode == IF errno = EPIPE THEN WARNING ELSE ERROR

write_error_prints_unless_quiet == ~quiet

write_error_prints == ~(write_error_exitcode = WARNING /\ quiet)

write_error ==
    /\ pc = "write_error"
    /\ stderr' = IF write_error_prints
                 THEN Append(stderr, Diag(ofname, strerror(errno)))
                 ELSE stderr
    /\ finish_up_gzip(write_error_exitcode)
    /\ UNCHANGED <<globals, input, nonblock, output, op, eof_ok, wbuf, wcnt,
                   wret, fret, retval, hist, pairv>>

gzip_error_line(m) == Diag(ifname, m)

gzip_error ==
    /\ \E m \in {"invalid compressed data--format violated"} :
        /\ Call("gzip_error", 0, 0)
        /\ stderr' = Append(stderr, gzip_error_line(m))
    /\ abort_gzip
    /\ scen' = [scen EXCEPT !.ok = FALSE]
    /\ UNCHANGED <<globals, input, nonblock, output, eof_ok, wbuf, wcnt, wret,
                   fret, retval, acct, wg, upd, wrote, phase, twin>>

xalloc_die_line_named == Diag(ifname, "memory_exhausted")

xalloc_die_line == DiagNoName

xalloc_die ==
    /\ Call("xalloc_die", 0, 0)
    /\ stderr' = Append(stderr, xalloc_die_line)
    /\ abort_gzip
    /\ scen' = [scen EXCEPT !.ok = FALSE]
    /\ UNCHANGED <<globals, input, nonblock, output, eof_ok, wbuf, wcnt, wret,
                   fret, retval, acct, wg, upd, wrote, phase, twin>>

(***************************************************************************)
(* The checksum calls of the surrounding program.                          *)
(***************************************************************************)
updcrc_call ==
    /\ \E s \in {"NULL", "window"} : \E n \in 0..WSIZE :
        /\ Call("updcrc", B2N(s = "NULL"), n)
        /\ crc' = updcrc(s, n)
        /\ upd' = Fed(s, n)
        /\ scen' = IF s = "NULL" /\ bytes_out = 0 /\ outcnt = 0
                   THEN [ok |-> TRUE, S |-> <<>>, mark |-> Len(output)]
                   ELSE [scen EXCEPT !.ok = FALSE]
    /\ retval' = crc'
    /\ pc' = "idle"
    /\ UNCHANGED <<inbuf, insize, inptr, outbuf, window, outcnt, bytes_in,
                   bytes_out, errno, test, quiet, envv, eof_ok, wbuf, wcnt,
                   wret, fret, acct, wg, wrote,
                   phase, twin>>

getcrc ==
    /\ Call("getcrc", 0, 0)
    /\ retval' = crc
    /\ pc' = "idle"
    /\ UNCHANGED <<globals, envv, eof_ok, wbuf, wcnt, wret, fret, acct, wg,
                   upd, scen, wrote, phase, twin>>

(***************************************************************************)
(* clear_bufs ()                                                           *)
(***************************************************************************)
clear_bufs_counters == [bytes_in |-> 0, bytes_out |-> 0]

clear_bufs ==
    /\ Call("clear_bufs", 0, 0)
    /\ outcnt' = 0
    /\ insize' = 0
    /\ inptr' = 0
    /\ bytes_in' = clear_bufs_counters.bytes_in
    /\ bytes_out' = clear_bufs_counters.bytes_out
    /\ acct' = [fill |-> 0, cnt |-> 0, copied |-> FALSE]
    /\ wg' = NoWrite
    /\ scen' = IF crc = 0
               THEN [ok |-> TRUE, S |-> <<>>, mark |-> Len(output)]
               ELSE [scen EXCEPT !.ok = FALSE]
    /\ pc' = "idle"
    /\ UNCHANGED <<inbuf, outbuf, window, crc, errno, test, quiet, envv,
                   eof_ok, wbuf, wcnt, wret, fret, retval, upd, wrote, phase, twin>>

(***************************************************************************)
(* The codec: it puts a byte into the window (inflating) or the output     *)
(* buffer (deflating) while there is room, and takes a byte of the input   *)
(* buffer while one is left.  A run either inflates or deflates.           *)
(***************************************************************************)
Unused(buf) == \A i \in DOMAIN buf : buf[i] = 0

put_ubyte ==
    /\ pc = "idle"
    /\ nops < MaxOps
    /\ outcnt < WSIZE
    /\ Unused(outbuf)
    /\ phase = "first" => log = <<>>
    /\ \E c \in Byte :
        /\ window' = [window EXCEPT ![outcnt] = c]
        /\ op' = [name |-> "put_ubyte", a |-> c, b |-> 0, pre |-> Pre]
        /\ Env(<<"put_ubyte", c, 0, 0, 0>>)
    /\ outcnt' = outcnt + 1
    /\ UNCHANGED <<inbuf, insize, inptr, outbuf, bytes_in, bytes_out, crc,
                   errno, test, quiet, envv, pc, eof_ok, wbuf, wcnt, wret,
                   fret, retval, hist, phase, twin>>

put_byte ==
    /\ pc = "idle"
    /\ nops < MaxOps
    /\ outcnt < OUTBUFSIZ
    /\ Unused(window)
    /\ phase = "first" => log = <<>>
    /\ \E c \in Byte :
        /\ outbuf' = [outbuf EXCEPT ![outcnt] = c]
        /\ op' = [name |-> "put_byte", a |-> c, b |-> 0, pre |-> Pre]
        /\ Env(<<"put_byte", c, 0, 0, 0>>)
    /\ outcnt' = outcnt + 1
    /\ scen' = [scen EXCEPT !.ok = FALSE]
    /\ UNCHANGED <<inbuf, insize, inptr, window, bytes_in, bytes_out, crc,
                   errno, test, quiet, envv, pc, eof_ok, wbuf, wcnt, wret,
                   fret, retval, nops, acct, wg, upd,
                   lastread, rdcalls, rd, lastw, wrote, phase, twin>>

get_byte ==
    /\ pc = "idle"
    /\ nops < MaxOps
    /\ inptr < insize
    /\ phase = "first" => log = <<>>
    /\ inptr' = inptr + 1
    /\ op' = [name |-> "get_byte", a |-> 0, b |-> 0, pre |-> Pre]
    /\ Env(<<"get_byte", 0, 0, 0, 0>>)
    /\ UNCHANGED <<inbuf, insize, outbuf, window, outcnt, bytes_in, bytes_out,
                   crc, errno, test, quiet, envv, pc, eof_ok, wbuf, wcnt,
                   wret, fret, retval, hist, phase, twin>>

(***************************************************************************)
(* flush_outbuf () and flush_window ()                                     *)
(***************************************************************************)
flush_outbuf_span_whole == [s |-> "outbuf", n |-> OUTBUFSIZ]

\* the bytes flush_outbuf gives to write_buf
flush_outbuf_span == [s |-> "outbuf", n |-> outcnt]

flush_outbuf ==
    /\ Call("flush_outbuf", 0, 0)
    /\ IF outcnt = 0
       THEN /\ pc' = "idle"
            /\ UNCHANGED <<bytes_out, acct, wg, wbuf, wcnt, wret, scen>>
       ELSE /\ write_buf_begin(flush_outbuf_span.s, 0, flush_outbuf_span.n,
                            "fo_done")
            /\ scen' = [scen EXCEPT !.ok = FALSE]
    /\ UNCHANGED <<inbuf, insize, inptr, outbuf, window, outcnt, bytes_in,
                   crc, errno, test, quiet, envv, eof_ok, fret, retval, upd,
                   wrote, phase, twin>>

flush_outbuf_done ==
    /\ pc = "fo_done"
    /\ outcnt' = 0
    /\ pc' = "idle"
    /\ UNCHANGED <<inbuf, insize, inptr, outbuf, window, bytes_in, bytes_out,
                   crc, errno, test, quiet, envv, op, eof_ok, wbuf, wcnt,
                   wret, fret, retval, hist, pairv>>

\* flush_window up to its write_buf; ret is where it returns to
flush_window_span_outbuf == [s |-> "outbuf", n |-> outcnt]

\* the bytes flush_window gives to updcrc
flush_window_span == [s |-> "window", n |-> outcnt]

flush_window_crc_not_yet == crc

\* crc when flush_window goes on to write_buf: updcrc was called before
flush_window_crc_first == updcrc(flush_window_span.s, flush_window_span.n)

flush_window_begin(ret) ==
    IF outcnt = 0
    THEN pc' = ret /\ UNCHANGED <<crc, upd, fret>>
    ELSE /\ crc' = flush_window_crc_first
         /\ upd' = Fed(flush_window_span.s, flush_window_span.n)
         /\ fret' = ret
         /\ pc' = "fw_write"

flush_window ==
    /\ Call("flush_window", 0, 0)
    /\ flush_window_begin("idle")
    /\ UNCHANGED <<inbuf, insize, inptr, outbuf, window, outcnt, bytes_in,
                   bytes_out, errno, test, quiet, envv, eof_ok, wbuf, wcnt,
                   wret, retval, acct, wg, scen, wrote, phase, twin>>

flush_window_write ==
    /\ pc = "fw_write"
    /\ write_buf_begin("window", 0, outcnt, "fw_done")
    /\ UNCHANGED <<inbuf, insize, inptr, outbuf, window, outcnt, bytes_in,
                   crc, errno, test, quiet, envv, op, eof_ok, fret, retval,
                   nops, upd, scen, lastread, rdcalls, rd, lastw, wrote, pairv>>

flush_window_done ==
    /\ pc = "fw_done"
    /\ outcnt' = 0
    /\ scen' = [scen EXCEPT !.S = @ \o Bytes("window", 0, outcnt)]
    /\ pc' = fret
    /\ UNCHANGED <<inbuf, insize, inptr, outbuf, window, bytes_in, bytes_out,
                   crc, errno, test, quiet, envv, op, eof_ok, wbuf, wcnt,
                   wret, fret, retval, nops, acct, wg, upd, lastread, rdcalls, rd,
                   lastw, wrote, pairv>>

(***************************************************************************)
(* fill_inbuf (eof_ok)                                                     *)
(***************************************************************************)
fill_inbuf ==
    /\ \E e \in BOOLEAN :
        /\ Call("fill_inbuf", B2N(e), 0)
        /\ eof_ok' = e
    /\ insize' = 0
    /\ pc' = "fill_loop"
    /\ UNCHANGED <<inbuf, inptr, outbuf, window, outcnt, bytes_in, bytes_out,
                   crc, errno, test, quiet, envv, wbuf, wcnt, wret, fret,
                   retval, acct, wg, upd, scen, wrote, phase, twin>>

fill_inbuf_request_at_start == [off |-> 0, cnt |-> INBUFSIZ - insize]

\* the request of the read in the loop: offset and count
fill_inbuf_request == [off |-> insize, cnt |-> INBUFSIZ - insize]

fill_inbuf_read_failed_as_eof ==
    IF eof_ok /\ insize = 0 THEN "fill_end" ELSE "read_error"

\* where a read that failed leads: if (len == -1) read_error ()
fill_inbuf_read_failed == "read_error"

\* one turn of the do-while loop
fill_inbuf_read ==
    /\ pc = "fill_loop"
    /\ \E r \in read_buffer(fill_inbuf_request.cnt) :
        /\ ReadDone(r)
        /\ IF r.len = 0
           THEN pc' = "fill_end" /\ UNCHANGED <<inbuf, insize>>
           ELSE IF r.len = -1
           THEN pc' = fill_inbuf_read_failed /\ UNCHANGED <<inbuf, insize>>
           ELSE /\ inbuf' = Store(inbuf, fill_inbuf_request.off, r.len)
                /\ insize' = insize + r.len
                /\ pc' = IF insize' < INBUFSIZ THEN "fill_loop" ELSE "fill_end"
    /\ UNCHANGED <<inptr, outbuf, window, outcnt, bytes_in, bytes_out, crc,
                   test, quiet, output, stderr, exitcode, op, eof_ok, wbuf,
                   wcnt, wret, fret, retval, nops, acct, wg, upd, scen, lastw,
                   wrote, phase, twin>>

\* what fill_inbuf leaves when it has read insize > 0 bytes
fill_inbuf_result_unread ==
    [bytes_in |-> bytes_in + insize - 1, inptr |-> 1, ret |-> inbuf[0]]

fill_inbuf_result ==
    [bytes_in |-> bytes_in + insize, inptr |-> 1, ret |-> inbuf[0]]

fill_inbuf_eof_noflush(ret) == pc' = ret /\ UNCHANGED <<crc, upd, fret>>

\* unexpected end of file: flush_window () comes first
fill_inbuf_eof_flush(ret) == flush_window_begin(ret)

\* after the loop
fill_inbuf_end ==
    /\ pc = "fill_end"
    /\ IF insize = 0
       THEN IF eof_ok
            THEN /\ retval' = EOF
                 /\ pc' = "idle"
                 /\ UNCHANGED <<bytes_in, inptr, acct, crc, upd, fret>>
            ELSE /\ fill_inbuf_eof_flush("fill_eof")
                 /\ UNCHANGED <<bytes_in, inptr, acct, retval>>
       ELSE /\ bytes_in' = fill_inbuf_result.bytes_in
            /\ inptr' = fill_inbuf_result.inptr
            /\ retval' = fill_inbuf_result.ret
            /\ acct' = [acct EXCEPT !.fill = @ + insize]
            /\ pc' = "idle"
            /\ UNCHANGED <<crc, upd, fret>>
    /\ UNCHANGED <<inbuf, insize, outbuf, window, outcnt, bytes_out, errno,
                   test, quiet, envv, op, eof_ok, wbuf, wcnt, wret, nops, wg,
                   scen, lastread, rdcalls, rd, lastw, wrote, pairv>>

\* unexpected end of file, after the flush: errno = 0; read_error ()
fill_inbuf_eof_errno_kept == errno

fill_inbuf_eof_errno == 0

fill_inbuf_eof ==
    /\ pc = "fill_eof"
    /\ errno' = fill_inbuf_eof_errno
    /\ pc' = "read_error"
    /\ UNCHANGED <<inbuf, insize, inptr, outbuf, window, outcnt, bytes_in,
                   bytes_out, crc, test, quiet, envv, op, eof_ok, wbuf, wcnt,
                   wret, fret, retval, hist, pairv>>

(***************************************************************************)
(* copy (in, out)                                                          *)
(***************************************************************************)
copy ==
    /\ Call("copy", 0, 0)
    /\ errno' = 0
    /\ pc' = "copy_loop"
    /\ acct' = [acct EXCEPT !.copied = TRUE]
    /\ scen' = [scen EXCEPT !.ok = FALSE]
    /\ UNCHANGED <<inbuf, insize, inptr, outbuf, window, outcnt, bytes_in,
                   bytes_out, crc, test, quiet, envv, eof_ok, wbuf, wcnt,
                   wret, fret, retval, wg, upd, wrote, phase, twin>>

copy_span_whole == [off |-> 0, cnt |-> insize]

\* the bytes copy gives to write_buf: (char *) inbuf + inptr, insize - inptr
copy_span == [off |-> inptr, cnt |-> insize - inptr]

\* the loop test and the write_buf of the body
copy_loop ==
    /\ pc = "copy_loop"
    /\ IF insize > inptr
       THEN /\ write_buf_begin("inbuf", copy_span.off, copy_span.cnt, "copy_read")
            /\ UNCHANGED retval
       ELSE /\ retval' = OK
            /\ pc' = "idle"
            /\ UNCHANGED <<bytes_out, acct, wg, wbuf, wcnt, wret>>
    /\ UNCHANGED <<inbuf, insize, inptr, outbuf, window, outcnt, bytes_in,
                   crc, errno, test, quiet, envv, op, eof_ok, fret, nops, upd,
                   scen, lastread, rdcalls, rd, lastw, wrote, pairv>>

copy_bytes_in_assigned(got) == got

copy_bytes_in(got) == bytes_in + got

copy_inptr_kept == inptr

\* inptr = 0
copy_inptr_after_read == 0

copy_read_failed_or_eof(got) == got <= 0

\* if (got == -1) read_error ()
copy_read_failed(got) == got = -1

\* the read_buffer of the body and the assignments after it
copy_read ==
    /\ pc = "copy_read"
    /\ \E r \in read_buffer(INBUFSIZ) :
        /\ ReadDone(r)
        /\ IF copy_read_failed(r.len)
           THEN /\ pc' = "read_error"
                /\ UNCHANGED <<inbuf, bytes_in, insize, inptr>>
           ELSE /\ inbuf' = Store(inbuf, 0, r.len)
                /\ bytes_in' = copy_bytes_in(r.len)
                /\ insize' = r.len
                /\ inptr' = copy_inptr_after_read
                /\ pc' = "copy_loop"
    /\ UNCHANGED <<outbuf, window, outcnt, bytes_out, crc, test, quiet,
                   output, stderr, exitcode, op, eof_ok, wbuf, wcnt, wret,
                   fret, retval, nops, acct, wg, upd, scen, lastw, wrote,
                   phase, twin>>

(***************************************************************************)
(* The program after its start: static storage is zero, the flags are as   *)
(* the command line set them.                                              *)
(***************************************************************************)
NoTwin == [test |-> FALSE]

InitRun(c, w) ==
    /\ inbuf = [i \in 0..(INBUFSIZ - 1) |-> 0]
    /\ outbuf = [i \in 0..(OUTBUFSIZ - 1) |-> 0]
    /\ window = w
    /\ insize = 0 /\ inptr = 0 /\ outcnt = 0
    /\ bytes_in = 0 /\ bytes_out = 0
    /\ crc = c
    /\ errno = 0
    /\ quiet \in BOOLEAN
    /\ input = SrcData
    /\ nonblock = TRUE
    /\ output = <<>>
    /\ stderr = <<>>
    /\ exitcode = RUNNING
    /\ pc = "idle" /\ eof_ok = FALSE
    /\ op = [name |-> "none", a |-> 0, b |-> 0, pre |-> Pre]
    /\ wbuf = [base |-> "outbuf", off |-> 0] /\ wcnt = 0
    /\ wret = "idle" /\ fret = "idle" /\ retval = 0
    /\ nops = 0
    /\ acct = [fill |-> 0, cnt |-> 0, copied |-> FALSE]
    /\ wg = NoWrite
    /\ upd = [v |-> c, w |-> c, a |-> <<>>, b |-> <<>>]
    /\ scen = [ok |-> c = 0, S |-> <<>>, mark |-> 0]
    /\ lastread = 0 /\ rdcalls = 0 /\ lastw = 0 /\ wrote = FALSE
    /\ rd = NoRead

ZeroWindow == [i \in 0..(WSIZE - 1) |-> 0]

Init ==
    /\ InitRun(0, ZeroWindow)
    /\ test \in BOOLEAN
    /\ phase = "single"
    /\ log = <<>>
    /\ twin = NoTwin

Next ==
    \/ clear_bufs
    \/ fill_inbuf
    \/ fill_inbuf_read
    \/ fill_inbuf_end
    \/ fill_inbuf_eof
    \/ copy
    \/ copy_loop
    \/ copy_read
    \/ updcrc_call
    \/ getcrc
    \/ flush_outbuf
    \/ flush_outbuf_done
    \/ flush_window
    \/ flush_window_write
    \/ flush_window_done
    \/ write_buf
    \/ write_buf_loop
    \/ read_error
    \/ write_error
    \/ gzip_error
    \/ xalloc_die
    \/ put_ubyte
    \/ put_byte
    \/ get_byte

Spec == Init /\ [][Next]_vars

(***************************************************************************)
(* updcrc and getcrc alone, from any value of the register and any window. *)
(***************************************************************************)
InitCrc ==
    /\ \E c \in 0..CrcMask : \E w \in [0..(WSIZE - 1) -> Byte] : InitRun(c, w)
    /\ test = FALSE
    /\ phase = "single"
    /\ log = <<>>
    /\ twin = NoTwin

NextCrc ==
    \/ updcrc_call
    \/ getcrc

SpecCrc == InitCrc /\ [][NextCrc]_vars

(***************************************************************************)
(* The deflating side alone: bytes put into outbuf, flush_outbuf and       *)
(* write_buf.  A write in progress is not left waiting for ever: the       *)
(* process runs, and the writer does not answer 0 for ever.                *)
(***************************************************************************)
NextWrite ==
    \/ clear_bufs
    \/ put_byte
    \/ flush_outbuf
    \/ flush_outbuf_done
    \/ write_buf
    \/ write_buf_loop
    \/ write_error

SpecWrite == Init /\ [][NextWrite]_vars /\ WF_vars(write_buf_loop)

(***************************************************************************)
(* Two runs of the same calls on the same input, the first with test       *)
(* clear and the second with test set.  Each has its own copy of the       *)
(* program and of its files.  The first run makes a call (or the codec a   *)
(* step) and finishes it; then the second run is given the same.           *)
(***************************************************************************)
Snapshot ==
    [inbuf |-> inbuf, insize |-> insize, inptr |-> inptr, outbuf |-> outbuf,
     window |-> window, outcnt |-> outcnt, bytes_in |-> bytes_in, bytes_out |-> bytes_out,
     crc |-> crc, errno |-> errno, test |-> test, quiet |-> quiet,
     input |-> input, nonblock |-> nonblock, output |-> output, stderr |-> stderr,
     exitcode |-> exitcode, pc |-> pc, op |-> op, eof_ok |-> eof_ok,
     wbuf |-> wbuf, wcnt |-> wcnt, wret |-> wret, fret |-> fret,
     retval |-> retval, nops |-> nops, acct |-> acct, wg |-> wg,
     upd |-> upd, scen |-> scen, lastread |-> lastread, rdcalls |-> rdcalls,
     rd |-> rd,
     lastw |-> lastw, wrote |-> wrote]

swap ==
    /\ pc = "idle"
    /\ \/ phase = "first" /\ log # <<>> /\ phase' = "second"
       \/ phase = "second" /\ log = <<>> /\ phase' = "first"
    /\ twin' = Snapshot
    /\ inbuf' = twin.inbuf
    /\ insize' = twin.insize
    /\ inptr' = twin.inptr
    /\ outbuf' = twin.outbuf
    /\ window' = twin.window
    /\ outcnt' = twin.outcnt
    /\ bytes_in' = twin.bytes_in
    /\ bytes_out' = twin.bytes_out
    /\ crc' = twin.crc
    /\ errno' = twin.errno
    /\ test' = twin.test
    /\ quiet' = twin.quiet
    /\ input' = twin.input
    /\ nonblock' = twin.nonblock
    /\ output' = twin.output
    /\ stderr' = twin.stderr
    /\ exitcode' = twin.exitcode
    /\ pc' = twin.pc
    /\ op' = twin.op
    /\ eof_ok' = twin.eof_ok
    /\ wbuf' = twin.wbuf
    /\ wcnt' = twin.wcnt
    /\ wret' = twin.wret
    /\ fret' = twin.fret
    /\ retval' = twin.retval
    /\ nops' = twin.nops
    /\ acct' = twin.acct
    /\ wg' = twin.wg
    /\ upd' = twin.upd
    /\ scen' = twin.scen
    /\ lastread' = twin.lastread
    /\ rdcalls' = twin.rdcalls
    /\ rd' = twin.rd
    /\ lastw' = twin.lastw
    /\ wrote' = twin.wrote
    /\ UNCHANGED log

InitPair ==
    /\ InitRun(0, ZeroWindow)
    /\ test = FALSE
    /\ phase = "first"
    /\ log = <<>>
    /\ twin = [Snapshot EXCEPT !.test = TRUE]

NextPair == Next \/ swap

SpecPair == InitPair /\ [][NextPair]_vars

\* what the two runs are compared on
Observed(r) ==
    <<r.bytes_in, r.bytes_out, r.crc, r.insize, r.inptr, r.outcnt>>

(***************************************************************************)
(* The properties.                                                         *)
(***************************************************************************)
Failed == pc \in {"read_error", "write_error", "exited"}

\* the bytes ofd has received since position mark
Since(mark) == SubSeq(output, mark + 1, Len(output))

\* C1: byte conservation.  While no read or write has failed, bytes_in is the
\* sum of the insize values of the fill_inbuf calls that returned a byte (when
\* copy was not used since clear_bufs) and bytes_out is the sum of the cnt
\* arguments given to write_buf, whatever the short reads and short writes.
ByteConservation ==
    ~Failed =>
        /\ ~acct.copied => bytes_in = acct.fill
        /\ bytes_out = acct.cnt

\* a fill_inbuf of two short reads has returned and a write_buf is between two
\* short writes
ByteConservation_witness ==
    /\ pc = "wb_loop" /\ wcnt = 1 /\ wbuf.off = 1
    /\ ~acct.copied /\ acct.fill = 2 /\ bytes_in = 2 /\ inbuf[1] = 2
    /\ acct.cnt = 2 /\ bytes_out = 2

\* C2: short-write tolerance.  With test clear and a writer that does not
\* fail, write_buf returns when the writer has received exactly buf[0..cnt),
\* in order, each byte once; bytes_out grew once, by the original cnt, before
\* the first write.
ShortWriteTolerance ==
    /\ (wg.stat = "active" /\ pc = "wb_loop") =>
          /\ bytes_out = wg.bo + Len(wg.req)
          /\ Since(wg.mark) \o Bytes(wbuf.base, wbuf.off, wcnt) = wg.req
    /\ (wg.stat = "returned" /\ ~test) =>
          /\ bytes_out = wg.bo + Len(wg.req)
          /\ Since(wg.mark) = wg.req

\* write_buf has returned after delivering two bytes one at a time
ShortWriteTolerance_witness ==
    /\ wg.stat = "returned" /\ ~test /\ pc = wret
    /\ Len(wg.req) = 2 /\ wg.req[1] # wg.req[2]
    /\ lastw = 1 /\ wbuf.off = 1

\* C3: test-mode invariance.  After every call, the run with test set has the
\* same bytes_in, bytes_out, crc, insize, inptr and outcnt as the run with test
\* clear on the same calls and input, it has called write not once, and it can
\* always take the step the first run took.
TestModeInvariance ==
    /\ (phase = "first" /\ pc = "idle" /\ log = <<>>) =>
          /\ Observed(Snapshot) = Observed(twin)
          /\ ~twin.wrote
    /\ phase = "second" =>
          /\ ~wrote
          /\ ~Failed
          /\ ENABLED NextPair

\* both runs have finished two calls; the first run has written
TestModeInvariance_witness ==
    /\ phase = "first" /\ pc = "idle" /\ log = <<>> /\ nops = 2
    /\ wrote /\ output # <<>> /\ twin.output = <<>>
    /\ bytes_out = 2 /\ twin.bytes_out = 2 /\ crc # 0 /\ bytes_in > 0

\* C4: checksum streaming.  updcrc (a) then updcrc (b) leaves the crc of one
\* updcrc (a ++ b), from any starting value; updcrc (NULL, n) sets crc to 0
\* and returns it; updcrc of an empty span leaves crc as it was; getcrc
\* returns crc and leaves it as it was.
ChecksumStreaming ==
    /\ crc = crc32_update(upd.v, upd.a \o upd.b, Len(upd.a) + Len(upd.b))
    /\ (op.name = "updcrc" /\ op.a = 1) => crc = 0 /\ retval = 0
    /\ (op.name = "updcrc" /\ op.a = 0) => retval = crc
    /\ (op.name = "updcrc" /\ op.a = 0 /\ op.b = 0) => crc = op.pre.crc
    /\ op.name = "getcrc" => retval = crc /\ crc = op.pre.crc

\* two non-empty chunks were fed from a starting value other than 0
ChecksumStreaming_witness ==
    /\ op.name = "updcrc" /\ op.a = 0 /\ nops = 2
    /\ Len(upd.a) = 2 /\ Len(upd.b) = 1
    /\ upd.v # 0 /\ upd.w # upd.v /\ crc # upd.w

\* C5: the window's chunking does not show.  From crc = 0 and clear_bufs, when
\* the chunks of S were put into the window and flushed with flush_window and
\* no write failed: crc is the crc of S in one piece, bytes_out is the length
\* of S, ofd received exactly S (test clear), and stderr is empty.
WindowChunking ==
    (scen.ok /\ pc = "idle") =>
        /\ crc = crc32_update(0, scen.S, Len(scen.S))
        /\ bytes_out = Len(scen.S)
        /\ ~test => Since(scen.mark) = scen.S
        /\ stderr = <<>>

\* "nan" was flushed as "na" then "n"
WindowChunking_witness ==
    /\ scen.ok /\ pc = "idle" /\ ~test /\ nops = 2
    /\ op.name = "flush_window"
    /\ scen.S = <<110, 97, 110>> /\ op.pre.outcnt = 1
    /\ output = scen.S

\* the last fill_inbuf(eof_ok) found the source exhausted at its first read
EofCase(e) ==
    /\ op.name = "fill_inbuf" /\ op.a = B2N(e)
    /\ rdcalls > 0 /\ lastread = 0 /\ insize = 0
    /\ pc # "fill_end"

EofAccepted ==
    EofCase(TRUE) =>
        /\ pc = "idle" /\ retval = EOF
        /\ stderr = <<>> /\ exitcode = RUNNING
        /\ bytes_in = op.pre.bytes_in /\ bytes_out = op.pre.bytes_out
        /\ outcnt = op.pre.outcnt /\ crc = op.pre.crc

EofReadError ==
    /\ pc \notin {"idle", "write_error"}
    /\ pc = "read_error" => errno = 0
    /\ pc = "exited" =>
          /\ stderr = <<Diag(ifname, "unexpected end of file")>>
          /\ exitcode = ERROR

\* C6 as stated: on an exhausted source fill_inbuf(eof_ok = true) returns EOF,
\* raises nothing and leaves bytes_in, bytes_out, outcnt and crc; and
\* fill_inbuf(eof_ok = false) never returns and always ends in the read error
\* "unexpected end of file".
EofClassification_stated ==
    /\ EofAccepted
    /\ EofCase(FALSE) => EofReadError

\* C6: on an exhausted source fill_inbuf(eof_ok = true) returns EOF, raises
\* nothing and leaves bytes_in, bytes_out, outcnt and crc; fill_inbuf(eof_ok =
\* false) never returns: it ends in the read error "unexpected end of file"
\* with errno 0, unless the write of the pending window bytes fails first, and
\* then it ends in write_error.
EofClassification ==
    /\ EofAccepted
    /\ EofCase(FALSE) =>
          IF lastw = -1
          THEN /\ pc \in {"write_error", "exited"}
               /\ pc = "exited" =>
                     /\ exitcode = (IF errno = EPIPE THEN WARNING ELSE ERROR)
                     /\ Len(stderr) <= 1
                     /\ \A i \in 1..Len(stderr) :
                           stderr[i] = Diag(ofname, strerror(errno))
          ELSE EofReadError

\* end of file met after an EAGAIN retry, with window bytes pending: they were
\* written, then the read error was raised
EofClassification_witness ==
    /\ EofCase(FALSE) /\ pc = "exited" /\ rdcalls = 2
    /\ op.pre.outcnt = 2 /\ ~test /\ Len(output) = 2 /\ lastw # -1
    /\ stderr = <<Diag(ifname, "unexpected end of file")>>

\* C7: after clear_bufs and after every completed fill_inbuf, copy and
\* consumer step, inptr <= insize <= INBUFSIZ.
InputBufferInvariant ==
    (pc = "idle" /\ op.name \in {"clear_bufs", "fill_inbuf", "copy", "get_byte"}) =>
        /\ inptr <= insize
        /\ insize <= INBUFSIZ

\* C8: no step lowers bytes_in or bytes_out except clear_bufs, which sets both
\* to 0 in the step that also zeroes outcnt, insize and inptr.
CounterMonotonicity ==
    [][(bytes_in' < bytes_in \/ bytes_out' < bytes_out) =>
          /\ op'.name = "clear_bufs" /\ nops' = nops + 1
          /\ bytes_in' = 0 /\ bytes_out' = 0
          /\ outcnt' = 0 /\ insize' = 0 /\ inptr' = 0]_vars

\* clear_bufs has just zeroed a counter and a buffer index that were above 0
CounterMonotonicity_witness ==
    /\ op.name = "clear_bufs" /\ pc = "idle"
    /\ (op.pre.bytes_out > 0 \/ op.pre.bytes_in > 0)
    /\ (op.pre.insize > 0 \/ op.pre.outcnt > 0)
    /\ bytes_in = 0 /\ bytes_out = 0 /\ insize = 0 /\ outcnt = 0

\* C9: a failed write in write_buf never returns to the write loop; with EPIPE
\* the severity is WARNING and the line is printed iff quiet is off; with any
\* other error the severity is ERROR and the line is printed whatever quiet.
WriteFailureClassification ==
    lastw = -1 =>
        /\ pc \in {"write_error", "exited"}
        /\ pc = "exited" =>
              /\ exitcode = (IF errno = EPIPE THEN WARNING ELSE ERROR)
              /\ stderr = (IF errno = EPIPE /\ quiet
                           THEN <<>>
                           ELSE <<Diag(ofname, strerror(errno))>>)

\* EPIPE after a short write, quiet: nothing printed, terminated as WARNING
WriteFailureClassification_witness ==
    /\ lastw = -1 /\ pc = "exited" /\ errno = EPIPE /\ quiet
    /\ stderr = <<>> /\ exitcode = WARNING /\ wrote

\* a line "\n<programName>: <displayName>: <message>\n"
IsDiag(l) ==
    /\ Len(l) = 7
    /\ \E name \in {ifname, ofname} : l = Diag(name, l[6])

\* the flush done by fill_inbuf on unexpected end of file met a write failure
NestedFlushFailure == EofCase(FALSE) /\ lastw = -1

\* C10 as stated: every fatal path, the nested one included, prints exactly
\* one line of the form "\n<programName>: <displayName>: <message>\n".
OneDiagnosticLine_stated ==
    (pc = "exited" /\ (exitcode = ERROR \/ NestedFlushFailure)) =>
        /\ Len(stderr) = 1
        /\ IsDiag(stderr[1])

\* C10: no terminating path prints two lines.  Terminating as ERROR prints
\* exactly one line: "\n<programName>: memory_exhausted\n" from xalloc_die,
\* "\n<programName>: <displayName>: <message>\n" from the others.  Terminating
\* as WARNING (EPIPE, the nested flush included) prints that one line when
\* quiet is off and nothing when quiet is on.
OneDiagnosticLine ==
    pc = "exited" =>
        /\ Len(stderr) <= 1
        /\ exitcode \in {ERROR, WARNING}
        /\ exitcode = ERROR =>
              /\ Len(stderr) = 1
              /\ IF op.name = "xalloc_die"
                 THEN stderr[1] = DiagNoName
                 ELSE IsDiag(stderr[1])
        /\ exitcode = WARNING =>
              stderr = (IF quiet THEN <<>> ELSE <<Diag(ofname, strerror(EPIPE))>>)

\* the nested flush failed with an error other than EPIPE: one line, about the
\* output file
OneDiagnosticLine_witness ==
    /\ NestedFlushFailure /\ pc = "exited" /\ exitcode = ERROR /\ quiet
    /\ stderr = <<Diag(ofname, strerror(ENOSPC))>>

\* C11: fill_inbuf sets insize to 0, reads at offset insize for INBUFSIZ -
\* insize bytes (at least 1, never past the end of inbuf), adds each positive
\* result to insize and stops at the first read that returns 0 or when inbuf
\* is full; when it returns with insize > 0, inbuf[0..insize) is what the
\* reads delivered, in order, bytes_in has grown by insize, inptr is 1 and the
\* value returned is inbuf[0].
RefillSuccess ==
    op.name = "fill_inbuf" =>
        /\ pc \in {"fill_loop", "fill_end"} =>
              /\ insize = rd.total /\ insize <= INBUFSIZ
              /\ Bytes("inbuf", 0, insize) = SubSeq(op.pre.input, 1, insize)
              /\ bytes_in = op.pre.bytes_in /\ inptr = op.pre.inptr
        /\ pc = "fill_loop" =>
              /\ INBUFSIZ - insize >= 1
              /\ rdcalls > 0 => lastread > 0
        /\ pc = "fill_end" => lastread = 0 \/ insize = INBUFSIZ
        /\ (pc = "idle" /\ insize > 0) =>
              /\ insize = rd.total /\ insize <= INBUFSIZ
              /\ Bytes("inbuf", 0, insize) = SubSeq(op.pre.input, 1, insize)
              /\ bytes_in = op.pre.bytes_in + insize
              /\ inptr = 1
              /\ retval = inbuf[0]

\* a refill has returned a buffer filled by two reads of one byte each
RefillSuccess_witness ==
    /\ op.name = "fill_inbuf" /\ pc = "idle"
    /\ insize = 2 /\ lastread = 1 /\ rd.total = 2
    /\ op.pre.bytes_in = 0 /\ bytes_in = 2
    /\ inbuf[0] = 1 /\ inbuf[1] = 2 /\ retval = 1 /\ inptr = 1

\* C12 as stated: a failed read in fill_inbuf raises the read error, unless
\* no byte was read in this refill and eof_ok is set: then fill_inbuf
\* returns EOF and raises nothing.
ReadFailure_stated ==
    (op.name = "fill_inbuf" /\ lastread = -1) =>
        IF op.a = 1 /\ insize = 0
        THEN /\ pc \notin {"read_error", "exited"}
             /\ stderr = <<>>
             /\ pc = "idle" => retval = EOF
        ELSE pc \in {"read_error", "exited"}

\* C12: a failed read in fill_inbuf always raises the read error, with the
\* message of its errno, whatever eof_ok and the bytes read so far; fill_inbuf
\* returns EOF only when eof_ok is set and its first read returned 0.
ReadFailure ==
    op.name = "fill_inbuf" =>
        /\ lastread = -1 =>
              /\ pc \in {"read_error", "exited"}
              /\ errno # 0
              /\ pc = "exited" =>
                    /\ exitcode = ERROR
                    /\ stderr = <<Diag(ifname, strerror(errno))>>
        /\ (pc = "idle" /\ insize = 0) =>
              /\ lastread = 0 /\ rd.total = 0
              /\ op.a = 1 /\ retval = EOF

\* the first read of fill_inbuf(eof_ok = true) failed: the process is gone
ReadFailure_witness ==
    /\ op.name = "fill_inbuf" /\ op.a = 1 /\ lastread = -1
    /\ insize = 0 /\ rd.total = 0 /\ rdcalls = 1 /\ errno = EIO
    /\ pc = "exited" /\ exitcode = ERROR
    /\ stderr = <<Diag(ifname, "Input/output error")>>

\* C13: when fill_inbuf(eof_ok = false) finds the source exhausted with
\* outcnt > 0, the read error is raised only after the pending window bytes
\* were fed to the checksum, counted in bytes_out and (test clear) written to
\* ofd, and outcnt was reset; nothing is printed before that.
FlushBeforeAbort ==
    (EofCase(FALSE) /\ op.pre.outcnt > 0) =>
        /\ pc \in {"fw_write", "wb_loop", "fw_done", "fill_eof", "read_error"}
              => stderr = <<>>
        /\ (pc \in {"fill_eof", "read_error"} \/ (pc = "exited" /\ lastw # -1)) =>
              /\ outcnt = 0
              /\ crc = crc32_update(op.pre.crc,
                                    Bytes("window", 0, op.pre.outcnt),
                                    op.pre.outcnt)
              /\ bytes_out = op.pre.bytes_out + op.pre.outcnt
              /\ IF test
                 THEN Len(output) = op.pre.outlen
                 ELSE Since(op.pre.outlen) = Bytes("window", 0, op.pre.outcnt)

\* read_error is about to print; the two pending bytes went out in two writes
FlushBeforeAbort_witness ==
    /\ EofCase(FALSE) /\ op.pre.outcnt = 2 /\ pc = "read_error"
    /\ ~test /\ outcnt = 0 /\ lastw = 1 /\ wbuf.off = 1
    /\ output = <<window[0], window[1]>> /\ window[0] # window[1]
    /\ crc # op.pre.crc /\ bytes_out = 2 /\ stderr = <<>>

\* the chunk a flush_window in progress found in the window, and the crc
\* that includes it
FlushChunk == Bytes("window", 0, op.pre.outcnt)
FlushCrc == crc32_update(op.pre.crc, FlushChunk, op.pre.outcnt)

\* C14: flush_window with outcnt > 0 runs crc over the outcnt window bytes
\* before bytes_out grows and before any write, and resets outcnt only after
\* write_buf has returned; with test set crc includes the chunk although
\* nothing is written; when the write fails crc and bytes_out include the
\* whole chunk and outcnt is left as it was.
FlushWindowOrdering ==
    /\ pc = "fw_write" =>
          /\ crc = FlushCrc
          /\ bytes_out = op.pre.bytes_out /\ Len(output) = op.pre.outlen
          /\ outcnt = op.pre.outcnt /\ outcnt > 0
    /\ ((pc = "wb_loop" /\ wret = "fw_done") \/ pc = "fw_done"
            \/ (pc \in {"write_error", "exited"} /\ lastw = -1 /\ wret = "fw_done")) =>
          /\ crc = FlushCrc
          /\ bytes_out = op.pre.bytes_out + op.pre.outcnt
          /\ outcnt = op.pre.outcnt /\ outcnt > 0
          /\ test => Len(output) = op.pre.outlen
    /\ (op.name = "flush_window" /\ pc = "idle" /\ op.pre.outcnt > 0) =>
          /\ crc = FlushCrc
          /\ bytes_out = op.pre.bytes_out + op.pre.outcnt
          /\ outcnt = 0
          /\ test => Len(output) = op.pre.outlen

\* the write of a flush_window failed after one byte of two
FlushWindowOrdering_witness ==
    /\ op.name = "flush_window" /\ pc = "exited" /\ lastw = -1
    /\ wret = "fw_done" /\ outcnt = 2 /\ Len(output) = op.pre.outlen + 1
    /\ crc = FlushCrc /\ crc # op.pre.crc
    /\ bytes_out = op.pre.bytes_out + 2

\* C15: flush_outbuf never changes crc, bytes_in, insize or inptr; with
\* outcnt = 0 flush_outbuf and flush_window return at once: no write, and
\* bytes_out, crc and outcnt as they were; with outcnt > 0 flush_outbuf gives
\* exactly outbuf[0..outcnt) to write_buf and returns with outcnt = 0.
FlushOutbufFrame ==
    /\ op.name = "flush_outbuf" =>
          /\ crc = op.pre.crc /\ bytes_in = op.pre.bytes_in
          /\ insize = op.pre.insize /\ inptr = op.pre.inptr
    /\ (op.name \in {"flush_outbuf", "flush_window"} /\ op.pre.outcnt = 0) =>
          /\ pc = "idle" /\ outcnt = 0
          /\ bytes_out = op.pre.bytes_out /\ crc = op.pre.crc
          /\ Len(output) = op.pre.outlen /\ lastw = 0
          /\ stderr = <<>>
    /\ (op.name = "flush_outbuf" /\ op.pre.outcnt > 0) =>
          /\ wg.req = Bytes("outbuf", 0, op.pre.outcnt)
          /\ bytes_out = op.pre.bytes_out + op.pre.outcnt
          /\ pc # "idle" => outcnt = op.pre.outcnt
          /\ pc = "idle" =>
                /\ outcnt = 0
                /\ ~test => Since(op.pre.outlen) = Bytes("outbuf", 0, op.pre.outcnt)

\* flush_outbuf has returned after writing one byte of an output buffer that
\* has room for two
FlushOutbufFrame_witness ==
    /\ op.name = "flush_outbuf" /\ pc = "idle" /\ ~test
    /\ op.pre.outcnt = 1 /\ outcnt = 0
    /\ output = <<outbuf[0]>> /\ outbuf[0] # 0 /\ bytes_out = 1

\* C16 as stated: once entered with unread bytes, copy never returns
\* normally.
CopyEnds_stated ==
    (op.name = "copy" /\ op.pre.insize > op.pre.inptr) => pc # "idle"

\* C16: copy entered with unread bytes returns OK when a read returns 0 (end
\* of file); the read error is raised only by a read that fails, and a read
\* that fails always raises it.
CopyEnds ==
    (op.name = "copy" /\ op.pre.insize > op.pre.inptr) =>
        /\ pc = "idle" =>
              /\ retval = OK /\ rdcalls > 0 /\ lastread = 0 /\ insize = 0
              /\ stderr = <<>> /\ exitcode = RUNNING
        /\ (pc = "read_error" \/ (pc = "exited" /\ lastw # -1)) =>
              /\ lastread = -1 /\ errno # 0
              /\ pc = "exited" =>
                    /\ exitcode = ERROR
                    /\ stderr = <<Diag(ifname, strerror(errno))>>
        /\ lastread = -1 => pc \in {"read_error", "exited"}

\* copy has written the unread byte, read one more, written it, met the end of
\* the file and returned OK
CopyEnds_witness ==
    /\ op.name = "copy" /\ op.pre.insize = 2 /\ op.pre.inptr = 1
    /\ pc = "idle" /\ retval = OK /\ rd.total = 1 /\ lastread = 0
    /\ ~test /\ output = <<2, 3>> /\ stderr = <<>>

\* C17: copy never changes outcnt or crc and is never inside flush_outbuf or
\* flush_window; each turn of its loop gives write_buf exactly
\* inbuf[inptr..insize): the bytes unread at entry in the first turn, the
\* chunk just read in the later ones.
CopyBypass ==
    op.name = "copy" =>
        /\ outcnt = op.pre.outcnt /\ crc = op.pre.crc
        /\ pc \notin {"fo_done", "fw_write", "fw_done", "fill_loop", "fill_end",
                      "fill_eof"}
        /\ pc = "wb_loop" => wret = "copy_read" /\ wbuf.base = "inbuf"
        /\ pc \in {"wb_loop", "copy_read"} =>
              /\ wg.req = Bytes("inbuf", inptr, insize - inptr)
              /\ wg.req = (IF rdcalls = 0
                           THEN op.pre.unread
                           ELSE SubSeq(op.pre.input, rd.total - lastread + 1,
                                       rd.total))

\* copy is in its second turn, with a byte waiting in outbuf all along
CopyBypass_witness ==
    /\ op.name = "copy" /\ pc = "copy_read" /\ rdcalls > 0 /\ ~test
    /\ wg.req = <<3>> /\ output = <<2, 3>>
    /\ op.pre.outcnt = 1 /\ outcnt = 1 /\ outbuf[0] # 0

\* C18: one read_buffer makes at most two reads; the second is made only
\* when the first failed with EAGAIN while O_NONBLOCK was set (and the flags
\* could be fetched and changed), and it leaves the flag cleared; read_buffer
\* never sets the flag; otherwise the failure of the first read is what the
\* caller gets.
OneShotRetry ==
    /\ rdcalls \in 0..2
    /\ rdcalls = 2 => rd.first = EAGAIN /\ ~nonblock
    /\ (rdcalls = 1 /\ lastread >= 0) => rd.first = 0
    /\ (rdcalls = 1 /\ rd.first # 0) => lastread = -1
    /\ (rdcalls = 1 /\ rd.first \notin {0, EAGAIN}) => errno = rd.first
    /\ (rdcalls = 1 /\ rd.first = EAGAIN /\ errno = EAGAIN) => ~nonblock
    /\ \A r \in read_buffer(INBUFSIZ) :
          /\ r.nreads \in 1..2
          /\ r.nreads = 2 => nonblock /\ ~r.nb /\ r.first = EAGAIN
          /\ r.nreads = 1 => r.nb = nonblock
          /\ (r.nreads = 1 /\ r.first # 0) => r.len = -1

\* EAGAIN once more, after an earlier read_buffer of the same refill had
\* cleared the flag and read a byte: not retried, the failure is returned
OneShotRetry_witness ==
    /\ op.name = "fill_inbuf" /\ insize = 1 /\ rd.total = 1
    /\ rdcalls = 1 /\ rd.first = EAGAIN /\ errno = EAGAIN /\ lastread = -1
    /\ ~nonblock /\ pc = "read_error"

\* C19: with a writer that fails or accepts at least one byte, write_buf
\* leaves its loop (it returns or raises write_error) after any number of
\* partial writes; a write that accepts 0 bytes of a non-empty request raises
\* nothing and changes nothing: the same write is made again.
WriteBufTermination ==
    /\ (pc = "wb_loop") ~> (pc # "wb_loop")
    /\ [][(pc = "wb_loop" /\ wcnt > 0 /\ lastw' = 0) =>
              UNCHANGED <<globals, envv, ctl>>]_vars

\* one byte of two was accepted, then none: write_buf is about to repeat the
\* write of the second byte
WriteBufTermination_witness ==
    /\ pc = "wb_loop" /\ ~test /\ lastw = 0 /\ wcnt = 1 /\ wbuf.off = 1
    /\ Len(wg.req) = 2 /\ Since(wg.mark) = <<wg.req[1]>>
    /\ stderr = <<>>

\* C20: copy entered with insize > inptr, every read succeeding until one
\* returns 0: it returns OK, ofd has received the bytes unread at entry
\* followed by every chunk read, each once and in order, bytes_out has grown
\* by the unread bytes plus the bytes read, bytes_in by the bytes read, and
\* insize = inptr = 0.  Entered with insize <= inptr, copy reads nothing,
\* writes nothing and changes none of them.
CopyAccounting ==
    (op.name = "copy" /\ pc = "idle") =>
        IF op.pre.insize > op.pre.inptr
        THEN /\ retval = OK /\ insize = 0 /\ inptr = 0
             /\ bytes_in = op.pre.bytes_in + rd.total
             /\ bytes_out = op.pre.bytes_out
                               + (op.pre.insize - op.pre.inptr) + rd.total
             /\ IF test
                THEN Len(output) = op.pre.outlen
                ELSE Since(op.pre.outlen)
                        = op.pre.unread \o SubSeq(op.pre.input, 1, rd.total)
        ELSE /\ retval = OK /\ rdcalls = 0 /\ rd.total = 0 /\ lastw = 0
             /\ input = op.pre.input /\ Len(output) = op.pre.outlen
             /\ bytes_in = op.pre.bytes_in /\ bytes_out = op.pre.bytes_out
             /\ insize = op.pre.insize /\ inptr = op.pre.inptr

\* after a refill of two bytes, one of them consumed, copy has passed on the
\* other and the last byte of the file
CopyAccounting_witness ==
    /\ op.name = "copy" /\ pc = "idle" /\ ~test
    /\ op.pre.unread = <<2>> /\ op.pre.input = <<3>> /\ rd.total = 1
    /\ op.pre.bytes_in = 2 /\ bytes_in = 3
    /\ op.pre.bytes_out = 0 /\ bytes_out = 2
    /\ insize = 0 /\ inptr = 0 /\ Since(op.pre.outlen) = <<2, 3>>

====
